---- MODULE Spec2Model ----
(***************************************************************************)
(* The t-SNE embedding optimizer of DruidJS (src/src/dimred/TSNE.js):      *)
(* construction, init() (kernel rows, row normalisation, symmetrisation),  *)
(* next() (gradient, gain/momentum update, re-centering), transform() and  *)
(* generator(); the binary search of init() run statement by statement;   *)
(* the references handed out to the embedding; and the binary heap of      *)
(* src/src/datastructure/Heap.js.                                          *)
(*                                                                         *)
(* Numbers.  The code computes in IEEE doubles.  Here                      *)
(*   - kernel values exp(-dist*beta) are integers in units of 1e-9 (the    *)
(*     self affinity 1e-9 of the code is 1 unit);                          *)
(*   - the target P is held exactly, as reduced fractions <<num, den>>;    *)
(*   - Y, the velocity _ystep, the gradient _grad and Q are fixed point    *)
(*     in units of 1/Unit, gains in units of 1/GainUnit; every product and *)
(*     quotient rounds toward zero at that resolution.                     *)
(* Matrices are the flat row-major arrays of the Matrix class: entry       *)
(* (row, col) of a matrix with `cols` columns is values[row*cols+col+1].   *)
(***************************************************************************)
EXTENDS Integers, Sequences, FiniteSets, TLC

VARIABLES
    X,            \* the input, a precomputed N x N distance matrix (rows)
    seed,         \* parameters.seed
    dim,          \* parameters.d
    epsilon,      \* parameters.epsilon, the learning rate
    beta,         \* per row, the precision its binary search stops at: a
                  \* function of X and parameters.perplexity
    Y,            \* this.Y, flat N*dim
    _ystep,       \* this._ystep, flat N*dim
    _gains,       \* this._gains, flat N*dim
    _grad,        \* this._grad, flat N*dim
    _iter,        \* this._iter
    _P,           \* this._P, flat N*N of fractions, <<>> before init()
    initialized,  \* whether init() has run
    sched,        \* per next() call: <<pmul, momval>> as that call computed them
    gens,         \* the generator objects created so far
    ret,          \* what the last call returned to its caller
    tsteps,       \* number of steps performed by transform() calls
    inits,        \* number of init() calls
    twin,         \* a second instance (a record), or NoTwin
    search,       \* the locals of init() while it runs its binary searches
    Yref,         \* the address of the Matrix the field this.Y refers to
    heap,         \* a Heap: its comparator and its _container
    hlast,        \* the last call on the heap and what it returned
    call,         \* a call of a library function: its arguments and, once
                  \* made, its result
    held          \* whether the consumer keeps the snapshots it is handed, and
                  \* those it kept: the reference and a copy of what it read
                  \* there at the time

\* the instance, its generators and the calls made on it
tsne == <<X, seed, dim, epsilon, beta, Y, _ystep, _gains, _grad, _iter, _P,
          initialized, sched, gens, ret, tsteps, inits, twin, Yref, held>>

\* the references to the embedding
refs == <<Yref, held>>

\* what the calls on a built instance leave alone
aside == <<search, heap, hlast, call>>

\* what the calls on the instance, on init()'s search and on the heap leave
\* alone
rest == <<call>>

\* the heap
heaps == <<heap, hlast>>

vars == <<tsne, aside>>

----------------------------------------------------------------------------
(* Bounds of the model *)

MaxIter == 4          \* cap on _iter in Spec, SpecSteps and SpecPair
MaxLongIter == 102    \* cap on _iter in SpecLong
MaxTransform == 2     \* largest `iterations` argument of transform()
MaxGenIter == 2       \* largest `iterations` argument of generator()
MaxGens == 1          \* generator objects created per instance
MaxLateIter == 252    \* cap on _iter in SpecLate
MaxHeld == 2          \* snapshots the consumer keeps
MaxLength == 4        \* longest array given to a library function
MaxValue == 2         \* largest number in such an array
MaxHeap == 3          \* cap on the length of the heap
MaxInits == 2         \* init() calls per instance

\* the `iterations` argument of transform() in SpecLong
LongJump == MaxLongIter \div 4

\* the `iterations` argument of transform() in SpecLate
LateJump == MaxLateIter \div 12

(* Resolution of the fixed-point numbers *)
Unit == 10^4          \* Y, _ystep, _grad, Q: 1/Unit
GainUnit == 10^2      \* _gains: 1/GainUnit, so the floor 0.01 is 1
SqCap == Unit * Unit  \* a squared distance from which 1/(1+dist) rounds to 0

(* Program constants *)
SelfAffinity == 1     \* 1e-9, the kernel value the code gives to j = i
ExaggerationEnd == 100
MomentumSwitch == 250
GainFloor == 1        \* 0.01
GainStep == 20        \* 0.2
GainDecay == 8        \* 0.8, in tenths
MomentumEarly == 5    \* 0.5, in tenths
MomentumLate == 8     \* 0.8, in tenths
Exaggeration == 4

----------------------------------------------------------------------------
(* Arithmetic *)

Abs(x) == IF x < 0 THEN -x ELSE x

Max(a, b) == IF a >= b THEN a ELSE b

\* a / b rounded toward zero, b > 0
Div(a, b) == IF a >= 0 THEN a \div b ELSE -((-a) \div b)

RECURSIVE Gcd(_, _)
Gcd(a, b) == IF b = 0 THEN a ELSE Gcd(b, a % b)

\* the fraction n/d (d > 0) in lowest terms
Frac(n, d) == LET g == Gcd(Abs(n), d) IN <<n \div g, d \div g>>

FAdd(p, q) ==
    LET g == Gcd(p[2], q[2])
        l == (p[2] \div g) * q[2]
    IN  Frac(p[1] * (l \div p[2]) + q[1] * (l \div q[2]), l)

FEq(p, q) == p[1] * q[2] = q[1] * p[2]

RECURSIVE FSum(_, _)
FSum(s, k) == IF k = 0 THEN <<0, 1>> ELSE FAdd(FSum(s, k - 1), s[k])

RECURSIVE Sum(_, _)
Sum(s, k) == IF k = 0 THEN 0 ELSE Sum(s, k - 1) + s[k]

\* a fraction as a fixed-point number
Fixed(p) == Div(p[1] * Unit, p[2])

sgn(x) == IF x > 0 THEN 1 ELSE IF x < 0 THEN -1 ELSE 0

----------------------------------------------------------------------------
(* Inputs *)

\* precomputed distance matrices (metric === "precomputed"): one point, two
\* points, three equidistant points, three points on a line
OnePoint == << <<0>> >>

TwoPoints == << <<0, 1>>, <<1, 0>> >>

\* a precomputed matrix that is not square: two rows of three entries
Wide == << <<0, 1, 1>>, <<1, 0, 1>> >>

\* the values of parameters.d of SpecInvalid
AnyDims == {0, 1}

Inputs ==
    { << <<0>> >>,
      TwoPoints,
      << <<0, 1, 1>>, <<1, 0, 1>>, <<1, 1, 0>> >>,
      << <<0, 1, 2>>, <<1, 0, 1>>, <<2, 1, 0>> >> }

maxtries == 50
DefaultSeed == 1212

Seeds == {1, DefaultSeed}

Dims == {1, 2}

Epsilons == {10}

\* the learning rate of the runs past the momentum switch
SmallEpsilons == {1}

\* the precisions the binary search of a row can stop at (it visits
\* 1, 2, 4, 8, 16, 32, 24, 20, 18, 17 on the way)
Betas == {17, 18}

NoTwin == [none |-> TRUE]

\* the seed parameters of the two instances of a seeded pair
PairSeeds == {0, DefaultSeed}

\* the values new Date().getTime() may return
Clocks == {3, 4}

----------------------------------------------------------------------------
(* Randomizer and Matrix *)

\* Math.exp(-p) in units of 1e-9, p an integer
ExpNano(p) ==
    CASE p = 12 -> 6144
      [] p = 13 -> 2260
      [] p = 14 -> 832
      [] p = 15 -> 306
      [] p = 16 -> 113
      [] p = 17 -> 41
      [] p = 18 -> 15
      [] p = 19 -> 6
      [] p = 20 -> 2
      [] p = 21 -> 1
      [] p >= 22 -> 0

\* the k-th Gaussian variate of a Randomizer seeded with s, times 1e-4
\* (a value in units of 1/Unit)
gauss_random(s, k) == ((s * 7 + 3 * k * k + k) % 5) - 2

\* the array f[1], ..., f[n] with every entry computed once
RECURSIVE Values(_, _)
Values(f, n) == IF n = 0 THEN <<>> ELSE Append(Values(f, n - 1), f[n])

\* new Matrix(rows, cols, v) with a number v
Filled(rows, cols, v) == Values([k \in 1..(rows * cols) |-> v], rows * cols)

entry(M, cols, row, col) == M[row * cols + col + 1]

----------------------------------------------------------------------------
(* An instance: the fields of a TSNE object as a record *)

Instance(x, s, dm, eps, b, y, ystep, gains, grad, iter, P, isinit, sc) ==
    [X |-> x, seed |-> s, dim |-> dm, epsilon |-> eps, beta |-> b, Y |-> y,
     _ystep |-> ystep, _gains |-> gains, _grad |-> grad, _iter |-> iter,
     _P |-> P, initialized |-> isinit, sched |-> sc]

\* the instance the variables hold
Self == Instance(X, seed, dim, epsilon, beta, Y, _ystep, _gains, _grad, _iter, _P,
                 initialized, sched)

\* new TSNE(X, {d, epsilon, seed, perplexity, metric: "precomputed"})
constructor(x, s, dm, eps, b) ==
    LET N == Len(x)
    IN  Instance(x, s, dm, eps, b,
                 Values([k \in 1..(N * dm) |-> gauss_random(s, k - 1)], N * dm),
                 Filled(N, dm, 0),
                 Filled(N, dm, GainUnit),
                 Filled(N, dm, 0),
                 0, <<>>, FALSE, <<>>)

\* the seed new Randomizer(_seed) takes at clock time now:
\* _seed || new Date().getTime()
Randomizer(_seed, now) == IF _seed = 0 THEN now ELSE _seed

\* new TSNE(X, {seed: s, ...}) made at clock time now
constructorAt(x, s, dm, eps, b, now) ==
    [constructor(x, Randomizer(s, now), dm, eps, b) EXCEPT !.seed = s]

----------------------------------------------------------------------------
(* init(): kernel rows, row normalisation, symmetrisation *)

\* the kernel of row i at precision beta, as the last pass of the search
\* loop leaves it in P_i
KernelRow(D_i, i, b_i, N) ==
    Values([j \in 1..N |->
               IF i # j THEN ExpNano(D_i[j] * b_i) ELSE SelfAffinity], N)

\* "normalize row": P_i[j] *= 1 / (2 * N * sum_Pi)
NormalizeRow(P_i, N) ==
    LET sum_Pi == Sum(P_i, Len(P_i))
    IN  Values([j \in 1..Len(P_i) |-> Frac(P_i[j], 2 * N * sum_Pi)], Len(P_i))

\* the inner loop of _symmetrizeP: data[j_i] = (data[++i_j] += data[j_i])
RECURSIVE SymmetrizeRowUpperOnly(_, _, _, _, _)
SymmetrizeRowUpperOnly(data, i_j, j_i, N, end) ==
    IF j_i < end
    THEN LET v == FAdd(data[i_j + 2], data[j_i + 1])
         IN  SymmetrizeRowUpperOnly([data EXCEPT ![i_j + 2] = v],
                                    i_j + 1, j_i + N, N, end)
    ELSE data

RECURSIVE SymmetrizeRow(_, _, _, _, _)
SymmetrizeRow(data, i_j, j_i, N, end) ==
    IF j_i < end
    THEN LET v == FAdd(data[i_j + 2], data[j_i + 1])
         IN  SymmetrizeRow([data EXCEPT ![i_j + 2] = v, ![j_i + 1] = v],
                           i_j + 1, j_i + N, N, end)
    ELSE data

RECURSIVE SymmetrizeFrom(_, _, _)
SymmetrizeFrom(data, i, N) ==
    IF i < N
    THEN SymmetrizeFrom(
             SymmetrizeRow(data, i * (N + 1), i * (N + 1) + N, N, N * N),
             i + 1, N)
    ELSE data

_symmetrizeP(P, N) == SymmetrizeFrom(P, 0, N)

\* the rows of P before symmetrisation, flat
ConditionalP(x, b) ==
    LET N == Len(x)
        rows == Values([i \in 1..N |-> NormalizeRow(KernelRow(x[i], i, b[i], N), N)], N)
    IN  Values([k \in 1..(N * N) |-> rows[((k - 1) \div N) + 1][((k - 1) % N) + 1]],
               N * N)

\* init() of instance t, the search of row i stopping at t.beta[i]
init(t) ==
    [t EXCEPT !._P = _symmetrizeP(ConditionalP(t.X, t.beta), Len(t.X)),
              !.initialized = TRUE]

----------------------------------------------------------------------------
(* init(): the binary search of the precision of each row.  A precision is *)
(* a dyadic number <<m, e>>, meaning m * 2^e with m odd.                    *)

\* no init() is running
NoSearch == [pc |-> "idle"]

\* new Heap(null, d => d, c), not used yet
Heap(c) == [comparator |-> c, container |-> <<>>]

\* no library function is called
NoCall == [fn |-> "none"]

IdleRest == call = NoCall

\* no init() is running and the heap is not used
Quiet ==
    /\ search = NoSearch
    /\ heap = Heap("min")
    /\ hlast = [op |-> "none"]

Idle == Quiet /\ IdleRest

\* the initial betamax and betamin of a row
Infinity == <<0, 1>>

NegInfinity == <<0, -1>>

RECURSIVE Dyadic(_, _)
Dyadic(m, e) == IF m % 2 = 0 THEN Dyadic(m \div 2, e + 1) ELSE <<m, e>>

\* 2 * beta
Twice(b) == <<b[1], b[2] + 1>>

\* 0.5 * beta
Half(b) == <<b[1], b[2] - 1>>

\* 0.5 * (a + b)
Mean(a, b) ==
    LET e == IF a[2] < b[2] THEN a[2] ELSE b[2]
    IN  Half(Dyadic(a[1] * 2^(a[2] - e) + b[1] * 2^(b[2] - e), e))

\* the sign of b - n, n an integer
DyCmp(b, n) ==
    IF b[2] >= 0 THEN sgn(b[1] * 2^b[2] - n) ELSE sgn(b[1] - n * 2^(-b[2]))

\* where the entropy H of row i at precision b lies: "hit" when
\* |H - Htarget| < tol, else "above" when H > Htarget, else "below".  Math.log
\* and Math.exp are not computed: of a single point H = log(1e-9) lies below
\* every target; of more points H falls as the precision rises and meets the
\* target at t.beta[i]
entropy(t, i, b) ==
    IF Len(t.X) = 1 THEN "below"
    ELSE CASE DyCmp(b, t.beta[i + 1]) < 0 -> "above"
           [] DyCmp(b, t.beta[i + 1]) = 0 -> "hit"
           [] OTHER -> "below"

\* P_i = P.row(i) still holds the zeros of new Matrix(N, N, 0)
NoKernel == <<0, 0>>

\* a < b, of precisions and the two infinities
DyLess(a, b) ==
    IF a = Infinity \/ b = NegInfinity THEN FALSE
    ELSE IF a = NegInfinity \/ b = Infinity THEN TRUE
    ELSE LET e == IF a[2] < b[2] THEN a[2] ELSE b[2]
         IN  a[1] * 2^(a[2] - e) < b[1] * 2^(b[2] - e)

\* the locals of init() at `for (let i = 0; ...)`
searchStart ==
    [pc |-> "row", i |-> 0, cnt |-> 0, betamin |-> NegInfinity,
     betamax |-> Infinity, beta |-> <<1, 0>>, evals |-> 0, hitAt |-> 0,
     kernelAt |-> NoKernel, rows |-> <<>>]

\* the head of the body of the row loop
rowStart(s) ==
    [s EXCEPT !.pc = "while", !.cnt = maxtries, !.betamin = NegInfinity,
              !.betamax = Infinity, !.beta = <<1, 0>>, !.evals = 0,
              !.hitAt = 0, !.kernelAt = NoKernel]

\* one test of `while (cnt--)` and, if it passes, one evaluation of the
\* kernel and the entropy; evals counts the evaluations of the row, hitAt is
\* the first evaluation that met the target, kernelAt the precision of the
\* kernel that `P_i[j] = pij` wrote into the row
whileStepNoBreak(t, s) ==
    IF s.cnt = 0
    THEN [s EXCEPT !.cnt = -1, !.pc = "normalize"]
    ELSE LET H == entropy(t, s.i, s.beta)
             e == [s EXCEPT !.cnt = @ - 1, !.evals = @ + 1,
                            !.kernelAt = s.beta,
                            !.hitAt = IF H = "hit" /\ @ = 0 THEN s.evals + 1
                                      ELSE @]
         IN  IF H = "above"
             THEN [e EXCEPT !.betamin = s.beta,
                            !.beta = IF s.betamax = Infinity
                                     THEN Twice(s.beta)
                                     ELSE Mean(s.beta, s.betamax)]
             ELSE [e EXCEPT !.betamax = s.beta,
                            !.beta = IF s.betamin = NegInfinity
                                     THEN Half(s.beta)
                                     ELSE Mean(s.beta, s.betamin)]

\* the search without bisection: beta is doubled or halved always
whileStepNoMidpoint(t, s) ==
    IF s.cnt = 0
    THEN [s EXCEPT !.cnt = -1, !.pc = "normalize"]
    ELSE LET H == entropy(t, s.i, s.beta)
             e == [s EXCEPT !.cnt = @ - 1, !.evals = @ + 1,
                            !.kernelAt = s.beta]
         IN  IF H = "hit"
             THEN [e EXCEPT !.pc = "normalize", !.hitAt = e.evals]
             ELSE IF H = "above"
             THEN [e EXCEPT !.betamin = s.beta, !.beta = Twice(s.beta)]
             ELSE [e EXCEPT !.betamax = s.beta, !.beta = Half(s.beta)]

\* the search with the kernel of the row computed after the update of beta
whileStepKernelAfter(t, s) ==
    IF s.cnt = 0
    THEN [s EXCEPT !.cnt = -1, !.pc = "normalize"]
    ELSE LET H == entropy(t, s.i, s.beta)
             e == [s EXCEPT !.cnt = @ - 1, !.evals = @ + 1]
         IN  IF H = "hit"
             THEN [e EXCEPT !.pc = "normalize", !.hitAt = e.evals,
                            !.kernelAt = s.beta]
             ELSE IF H = "above"
             THEN LET b == IF s.betamax = Infinity THEN Twice(s.beta)
                           ELSE Mean(s.beta, s.betamax)
                  IN  [e EXCEPT !.betamin = s.beta, !.beta = b, !.kernelAt = b]
             ELSE LET b == IF s.betamin = NegInfinity THEN Half(s.beta)
                           ELSE Mean(s.beta, s.betamin)
                  IN  [e EXCEPT !.betamax = s.beta, !.beta = b, !.kernelAt = b]

whileStep(t, s) ==
    IF s.cnt = 0
    THEN [s EXCEPT !.cnt = -1, !.pc = "normalize"]
    ELSE LET H == entropy(t, s.i, s.beta)
             e == [s EXCEPT !.cnt = @ - 1, !.evals = @ + 1,
                            !.kernelAt = s.beta]
         IN  IF H = "hit"
             THEN [e EXCEPT !.pc = "normalize", !.hitAt = e.evals]
             ELSE IF H = "above"
             THEN [e EXCEPT !.betamin = s.beta,
                            !.beta = IF s.betamax = Infinity
                                     THEN Twice(s.beta)
                                     ELSE Mean(s.beta, s.betamax)]
             ELSE [e EXCEPT !.betamax = s.beta,
                            !.beta = IF s.betamin = NegInfinity
                                     THEN Half(s.beta)
                                     ELSE Mean(s.beta, s.betamin)]

\* "normalize row" and ++i
rowEnd(s) ==
    [s EXCEPT !.pc = "row", !.i = @ + 1,
              !.rows = Append(@, [evals |-> s.evals, hitAt |-> s.hitAt,
                                  beta |-> s.beta, kernelAt |-> s.kernelAt])]

----------------------------------------------------------------------------
(* next(): one optimisation step *)

\* (a - b)^2 of two fixed-point coordinates, rounded toward zero; from
\* |a - b| >= 100 on it is SqCap, where 1/(1+dist) has rounded to 0 anyway
SqDiff(a, b) ==
    LET ax == Abs(a - b)
        hi == ax \div 100
        lo == ax % 100
    IN  IF ax >= 100 * Unit
        THEN SqCap
        ELSE hi * hi + ((200 * hi * lo + lo * lo) \div Unit)

RECURSIVE SqDist(_, _, _, _, _)
SqDist(y, dm, i, j, d) ==
    IF d = 0 THEN 0
    ELSE SqDist(y, dm, i, j, d - 1)
         + SqDiff(entry(y, dm, i, d - 1), entry(y, dm, j, d - 1))

\* euclidean_squared(Y.row(i), Y.row(j))
euclidean_squared(y, dm, i, j) == SqDist(y, dm, i, j, dm)

\* Q of _gradient: Q[i][j] = 1 / (1 + dist) for i # j, 0 on the diagonal
StudentT(y, N, dm) ==
    Values([k \in 1..(N * N) |->
               LET i == (k - 1) \div N
                   j == (k - 1) % N
               IN  IF i = j THEN 0
                   ELSE Div(Unit * Unit, Unit + euclidean_squared(y, dm, i, j))],
           N * N)

\* pmul of _gradient, from the counter next() has already advanced
PmulLate(iter) == IF iter <= ExaggerationEnd THEN Exaggeration ELSE 1

Pmul(iter) == IF iter < ExaggerationEnd THEN Exaggeration ELSE 1

MomvalLate(iter) == IF iter <= MomentumSwitch THEN MomentumEarly ELSE MomentumLate

\* momval of next(), in tenths
Momval(iter) == IF iter < MomentumSwitch THEN MomentumEarly ELSE MomentumLate

\* premult = 4 * (pmul * P_i[j] - (qu / qsum)) * qu
Premult(p, qu, qsum, pmul) ==
    LET q == IF qsum = 0 THEN 0 ELSE Div(qu * Unit, qsum)
    IN  Div(4 * (pmul * Fixed(p) - q) * qu, Unit)

\* the sum over j < n, j # i, of premult * (Y_i[d] - Y[j][d])
RECURSIVE GradSum(_, _, _, _, _, _, _, _, _, _)
GradSum(y, P, Q, qsum, pmul, N, dm, i, d, n) ==
    IF n = 0 THEN 0
    ELSE LET j == n - 1
         IN  GradSum(y, P, Q, qsum, pmul, N, dm, i, d, n - 1)
             + (IF i = j THEN 0
                ELSE Div(Premult(entry(P, N, i, j), entry(Q, N, i, j), qsum, pmul)
                         * (entry(y, dm, i, d) - entry(y, dm, j, d)), Unit))

\* the "calc gradient" loops of _gradient: g_i[d] += ..., onto the matrix g
GradientInto(g, y, P, N, dm, pmul) ==
    LET Q == StudentT(y, N, dm)
        qsum == Sum(Q, N * N)
    IN  Values([k \in 1..(N * dm) |->
                   g[k] + GradSum(y, P, Q, qsum, pmul, N, dm,
                                  (k - 1) \div dm, (k - 1) % dm, N)],
               N * dm)

\* a gradient matrix that starts from zero in every call
GradientFresh(g, y, P, N, dm, pmul) ==
    GradientInto(Filled(N, dm, 0), y, P, N, dm, pmul)

\* _gradient(Y): const grad = this._grad, allocated once by the constructor
_gradient(g, y, P, N, dm, pmul) == GradientInto(g, y, P, N, dm, pmul)

\* newgain of next()
NewGainNoFloor(gid, sid, gainid) ==
    IF sgn(gid) = sgn(sid) THEN Div(gainid * GainDecay, 10) ELSE gainid + GainStep

NewGain(gid, sid, gainid) ==
    Max(IF sgn(gid) = sgn(sid) THEN Div(gainid * GainDecay, 10)
                               ELSE gainid + GainStep,
        GainFloor)

\* newsid = momval * sid - epsilon * newgain * gid
NewStep(momval, sid, eps, newgain, gid) ==
    Div(momval * sid, 10) - Div(eps * newgain * gid, GainUnit)

\* the sum of column d of a flat matrix, over the first n rows
RECURSIVE ColSum(_, _, _, _)
ColSum(y, dm, d, n) ==
    IF n = 0 THEN 0 ELSE ColSum(y, dm, d, n - 1) + entry(y, dm, n - 1, d)

\* "center Y around mean": ymean[d] /= N, then Y_val[i] -= ymean[d]
CenterSkipLast(y, N, dm) ==
    LET ymean == Values([d \in 1..dm |-> Div(ColSum(y, dm, d - 1, N), N)], dm)
    IN  Values([k \in 1..(N * dm) |->
                   IF k = N * dm THEN y[k] ELSE y[k] - ymean[((k - 1) % dm) + 1]],
               N * dm)

Center(y, N, dm) ==
    LET ymean == Values([d \in 1..dm |-> Div(ColSum(y, dm, d - 1, N), N)], dm)
    IN  Values([k \in 1..(N * dm) |-> y[k] - ymean[((k - 1) % dm) + 1]], N * dm)

nextExaggeratesP(t) ==
    LET N == Len(t.X)
        dm == t.dim
        iter == t._iter + 1
        momval == Momval(iter)
        pmul == Pmul(iter)
        grad == _gradient(t._grad, t.Y, t._P, N, dm, pmul)
        gains == Values([k \in 1..(N * dm) |->
                            NewGain(grad[k], t._ystep[k], t._gains[k])], N * dm)
        ystep == Values([k \in 1..(N * dm) |->
                            NewStep(momval, t._ystep[k], t.epsilon, gains[k], grad[k])],
                        N * dm)
        moved == Values([k \in 1..(N * dm) |-> t.Y[k] + ystep[k]], N * dm)
    IN  [t EXCEPT !._iter = iter,
                  !._grad = grad,
                  !._gains = gains,
                  !._ystep = ystep,
                  !.Y = Center(moved, N, dm),
                  !.sched = Append(@, <<pmul, momval>>),
                  !._P = Values([k \in 1..(N * N) |->
                                   Frac(pmul * t._P[k][1], t._P[k][2])], N * N)]

\* next() on instance t
next(t) ==
    LET N == Len(t.X)
        dm == t.dim
        iter == t._iter + 1
        momval == Momval(iter)
        pmul == Pmul(iter)
        grad == _gradient(t._grad, t.Y, t._P, N, dm, pmul)
        gains == Values([k \in 1..(N * dm) |->
                            NewGain(grad[k], t._ystep[k], t._gains[k])], N * dm)
        ystep == Values([k \in 1..(N * dm) |->
                            NewStep(momval, t._ystep[k], t.epsilon, gains[k], grad[k])],
                        N * dm)
        moved == Values([k \in 1..(N * dm) |-> t.Y[k] + ystep[k]], N * dm)
    IN  [t EXCEPT !._iter = iter,
                  !._grad = grad,
                  !._gains = gains,
                  !._ystep = ystep,
                  !.Y = Center(moved, N, dm),
                  !.sched = Append(@, <<pmul, momval>>)]

\* whether next() on instance t throws a TypeError: P.row(i) in _gradient when
\* init() never set this._P, Y.row(i) when d = 0 (new Matrix(N, 0, ...) holds
\* no data)
nextThrows(t) == t._P = <<>> \/ t.dim = 0

\* the instance a next() that threw leaves behind: ++this._iter has run, and
\* momval and pmul were computed
nextThrown(t) ==
    [t EXCEPT !._iter = @ + 1,
              !.sched = Append(@, <<Pmul(t._iter + 1), Momval(t._iter + 1)>>)]

nextCallNoCount(t) ==
    IF nextThrows(t)
    THEN [inst |-> t, out |-> [kind |-> "error", name |-> "TypeError"]]
    ELSE LET u == [next(t) EXCEPT !._iter = t._iter]
         IN  [inst |-> u, out |-> [kind |-> "value", value |-> u.Y]]

\* a call of next() on instance t: the instance afterwards and the outcome
nextCall(t) ==
    IF nextThrows(t)
    THEN [inst |-> nextThrown(t),
          out |-> [kind |-> "error", name |-> "TypeError"]]
    ELSE LET u == next(t)
         IN  [inst |-> u, out |-> [kind |-> "value", value |-> u.Y]]

----------------------------------------------------------------------------
(* transform() and generator() *)

\* check_init() of the base class DR
check_init(t) == t.initialized

\* the getter `projection` of the base class DR
projection(t) == t.Y

\* a consumer that keeps none of the snapshots it is handed
Unkept == [keeps |-> FALSE, snaps |-> <<>>]

\* the address of the Matrix the constructor stores in this.Y
YAddress == 1

\* the address this.Y holds after a next() that found address a there: the
\* step writes Y.values in place
nextRefFresh(a) == a + 1

nextRef(a) == a

\* the reference the getter `projection` returns when this.Y holds address a
projectionRef(a) == a

\* for (let i = 0; i < iterations; ++i) this.next()
RECURSIVE Steps(_, _)
Steps(t, k) == IF k = 0 THEN t ELSE Steps(next(t), k - 1)

transformSkipStep(t, iterations) ==
    IF ~check_init(t)
    THEN [inst |-> t, out |-> [kind |-> "error"]]
    ELSE LET u == Steps(t, Max(iterations - 1, 0))
         IN  [inst |-> u, out |-> [kind |-> "value", value |-> projection(u)]]

\* transform(iterations): the instance afterwards and the value returned
transform(t, iterations) ==
    IF ~check_init(t)
    THEN [inst |-> t, out |-> [kind |-> "error"]]
    ELSE IF iterations > 0 /\ nextThrows(t)
    THEN [inst |-> nextThrown(t),
          out |-> [kind |-> "error", name |-> "TypeError"]]
    ELSE LET u == Steps(t, iterations)
         IN  [inst |-> u, out |-> [kind |-> "value", value |-> projection(u)]]

\* the generator object generator(iterations) returns: no line of the body
\* has run yet
generator(iterations) ==
    [iterations |-> iterations, i |-> 0, st |-> "start",
     pulls |-> 0, steps |-> 0, yields |-> 0, threw |-> FALSE]

\* the loop of the generator body, entered with loop counter i
generatorLoopAhead(g, t, i) ==
    IF i < g.iterations
    THEN LET u == next(next(t))
         IN  [gen |-> [g EXCEPT !.i = i, !.st = "yield", !.yields = @ + 1],
              inst |-> u,
              out |-> [kind |-> "yield", value |-> projection(u)]]
    ELSE [gen |-> [g EXCEPT !.i = i, !.st = "done"],
          inst |-> t,
          out |-> [kind |-> "return", value |-> projection(t)]]

generatorLoopOneMore(g, t, i) ==
    IF i <= g.iterations
    THEN LET u == next(t)
         IN  [gen |-> [g EXCEPT !.i = i, !.st = "yield", !.yields = @ + 1],
              inst |-> u,
              out |-> [kind |-> "yield", value |-> projection(u)]]
    ELSE [gen |-> [g EXCEPT !.i = i, !.st = "done"],
          inst |-> t,
          out |-> [kind |-> "return", value |-> projection(t)]]

generatorLoop(g, t, i) ==
    IF i < g.iterations
    THEN LET u == next(t)
         IN  [gen |-> [g EXCEPT !.i = i, !.st = "yield", !.yields = @ + 1],
              inst |-> u,
              out |-> [kind |-> "yield", value |-> projection(u)]]
    ELSE [gen |-> [g EXCEPT !.i = i, !.st = "done"],
          inst |-> t,
          out |-> [kind |-> "return", value |-> projection(t)]]

\* one pull (g.next()) of generator object g of instance t: the body runs
\* from where it was suspended to its next yield or to its end
resume(g, t) ==
    LET r == CASE g.st = "done" ->
                    [gen |-> g, inst |-> t, out |-> [kind |-> "done"]]
               [] g.st = "start" ->
                    IF ~check_init(t)
                    THEN [gen |-> [g EXCEPT !.st = "done", !.threw = TRUE],
                          inst |-> t, out |-> [kind |-> "error"]]
                    ELSE generatorLoop(g, t, 0)
               [] g.st = "yield" -> generatorLoop(g, t, g.i + 1)
    IN  IF g.st = "done" THEN r
        ELSE [r EXCEPT !.gen.pulls = @ + 1,
                       !.gen.steps = @ + (r.inst._iter - t._iter)]

----------------------------------------------------------------------------
(* Heap (src/src/datastructure/Heap.js): a binary heap held in an array of  *)
(* entries {element, value}; index k of the array is position k + 1 here.   *)

\* the elements pushed
Elements == 1..4

\* the accessor of the heap: two elements share each value
accessor(element) == (element + 1) \div 2

\* this._comparator of a "min" or a "max" heap
comparator(c, a, b) == IF c = "min" THEN a < b ELSE a > b

_swap(container, index_a, index_b) ==
    [container EXCEPT ![index_a + 1] = container[index_b + 1],
                      ![index_b + 1] = container[index_a + 1]]

\* (index - 1) >> 1
ParentOf(index) == IF index = 0 THEN -1 ELSE (index - 1) \div 2

RECURSIVE HeapifyUpFrom(_, _, _)
HeapifyUpFrom(c, container, index) ==
    LET parent == ParentOf(index)
    IN  IF index > 0 /\ comparator(c, container[index + 1].value,
                                      container[parent + 1].value)
        THEN HeapifyUpFrom(c, _swap(container, parent, index), parent)
        ELSE container

_heapify_up(c, container) == HeapifyUpFrom(c, container, Len(container) - 1)

RECURSIVE _heapify_down(_, _, _)
_heapify_down(c, container, index) ==
    LET length == Len(container)
        left == 2 * index + 1
        right == left + 1
        atLeft == IF left < length /\ comparator(c, container[left + 1].value,
                                                   container[index + 1].value)
                  THEN left ELSE index
        swapIdx == IF right < length /\ comparator(c, container[right + 1].value,
                                                     container[atLeft + 1].value)
                   THEN right ELSE atLeft
    IN  IF swapIdx = index THEN container
        ELSE _heapify_down(c, _swap(container, index, swapIdx), swapIdx)

\* Math.floor(elements.length / 2 - 1); a Set has no `length`, the
\* expression is NaN and the loop `i >= 0` of heapify does not run
LastParent(elements) ==
    IF elements.kind = "Array" THEN (Len(elements.items) \div 2) - 1 ELSE -1

RECURSIVE HeapifyFrom(_, _, _)
HeapifyFrom(c, container, i) ==
    IF i >= 0
    THEN HeapifyFrom(c, _heapify_down(c, container, i), i - 1)
    ELSE container

\* Heap.heapify(elements, accessor, c), also reached by new Heap(elements,
\* accessor, c); elements is an Array or a Set, its items in iteration order
heapify(elements, c) ==
    LET items == elements.items
        container == [k \in 1..Len(items) |->
                         [element |-> items[k], value |-> accessor(items[k])]]
    IN  [comparator |-> c,
         container |-> HeapifyFrom(c, container, LastParent(elements))]

\* heap.push(element): the heap afterwards and what the call returned
push(h, element) ==
    LET node == [element |-> element, value |-> accessor(element)]
    IN  [heap |-> [h EXCEPT !.container =
                      _heapify_up(h.comparator, Append(h.container, node))],
         out |-> [kind |-> "this"]]

\* heap.pushPop(element); this._container[0].value of an empty heap is a
\* TypeError
pushPop(h, element) ==
    LET value == accessor(element)
    IN  IF Len(h.container) = 0
        THEN [heap |-> h, out |-> [kind |-> "error", name |-> "TypeError"]]
        ELSE IF comparator(h.comparator, h.container[1].value, value)
        THEN [heap |-> [h EXCEPT !.container =
                          _heapify_down(h.comparator,
                              [h.container EXCEPT ![1] =
                                  [element |-> element, value |-> value]], 0)],
              out |-> [kind |-> "entry", entry |-> h.container[1]]]
        ELSE [heap |-> h,
              out |-> [kind |-> "entry",
                       entry |-> [element |-> element, value |-> value]]]

\* heap.pop()
pop(h) ==
    LET container == h.container
        length == Len(container)
    IN  IF length = 0
        THEN [heap |-> h, out |-> [kind |-> "null"]]
        ELSE IF length = 1
        THEN [heap |-> [h EXCEPT !.container = <<>>],
              out |-> [kind |-> "entry", entry |-> container[1]]]
        ELSE LET swapped == _swap(container, 0, length - 1)
             IN  [heap |-> [h EXCEPT !.container =
                              _heapify_down(h.comparator,
                                  SubSeq(swapped, 1, length - 1), 0)],
                  out |-> [kind |-> "entry", entry |-> swapped[length]]]

----------------------------------------------------------------------------
(* min_index (src/src/util/min_index.js) *)

RECURSIVE MinIndexFrom(_, _, _, _)
MinIndexFrom(values, i, min_idx, min_val) ==
    IF i < Len(values)
    THEN IF min_val > values[i + 1]
         THEN MinIndexFrom(values, i + 1, i, values[i + 1])
         ELSE MinIndexFrom(values, i + 1, min_idx, min_val)
    ELSE <<min_idx, min_val>>

RECURSIVE MaxIndexFrom(_, _, _, _)
MaxIndexFrom(values, i, max_idx, max_val) ==
    IF i < Len(values)
    THEN IF max_val < values[i + 1]
         THEN MaxIndexFrom(values, i + 1, i, values[i + 1])
         ELSE MaxIndexFrom(values, i + 1, max_idx, max_val)
    ELSE <<max_idx, max_val>>

\* the function of the same alias at the end of src/knn/BallTree.js, which
\* returns the maximum
max_index(values) == MaxIndexFrom(values, 1, 0, values[1])

\* [min_idx, min_val] of a non-empty array
min_index(values) == MinIndexFrom(values, 1, 0, values[1])

\* the arrays min_index is called on
MinIndexArrays == UNION {[1..n -> 0..MaxValue] : n \in 1..MaxLength}

----------------------------------------------------------------------------
(* quickselect(arr, compare, k, left, right), compare the difference of
   coordinate c of two elements.  An element is <<key, place>>: key its
   coordinate 0, its only one, place its index in the array the call was
   given *)

\* arr[i] of an index outside the array
Undefined == <<"undefined">>

\* arr[i], i counted from 0
At(arr, i) == IF i \in 0..(Len(arr) - 1) THEN arr[i + 1] ELSE Undefined

\* the sign of compare(a, b) = a[c] - b[c]; of undefined, and of the
\* coordinate -1 no element has, it is NaN, which is neither < 0 nor > 0 nor
\* === 0: the 2 stands for it
compare(c, a, b) ==
    IF a = Undefined \/ b = Undefined \/ c # 0 THEN 2
    ELSE sgn(a[1] - b[1])

\* swap(arr, i, j); the indices a call reaches lie inside the array
swap(arr, i, j) ==
    [arr EXCEPT ![i + 1] = arr[j + 1], ![j + 1] = arr[i + 1]]

\* while (compare(arr[i], t) < 0) ++i
\* where the loop stops: the first index from i on whose element does not
\* compare < 0 with t (arr[arr.length] is undefined and compares as NaN)
ScanUp(arr, c, t, i) ==
    CHOOSE m \in i..Len(arr) :
        /\ compare(c, At(arr, m), t) # -1
        /\ \A n \in i..(m - 1) : compare(c, At(arr, n), t) = -1

\* while (compare(arr[j], t) > 0) --j
\* where the loop stops: the first index from j down whose element does not
\* compare > 0 with t (arr[-1] is undefined and compares as NaN)
ScanDown(arr, c, t, j) ==
    CHOOSE m \in -1..j :
        /\ compare(c, At(arr, m), t) # 1
        /\ \A n \in (m + 1)..j : compare(c, At(arr, n), t) = 1

\* while (i < j) { swap(arr, i++, j--); ... }
RECURSIVE Partition(_, _, _, _, _)
Partition(arr, c, t, i, j) ==
    IF i < j
    THEN LET a == swap(arr, i, j)
         IN  Partition(a, c, t, ScanUp(a, c, t, i + 1),
                       ScanDown(a, c, t, j - 1))
    ELSE [arr |-> arr, j |-> j]

\* the body of `while (right > left)` that narrows to the wrong side
quickselectLoopOtherSide(q) ==
    LET t == At(q.arr, q.k)
        a1 == swap(q.arr, q.left, q.k)
        a2 == IF compare(q.c, At(a1, q.right), t) = 1
              THEN swap(a1, q.left, q.right) ELSE a1
        p == Partition(a2, q.c, t, q.left, q.right)
        same == compare(q.c, At(p.arr, q.left), t) = 0
        j == IF same THEN p.j ELSE p.j + 1
        a3 == IF same THEN swap(p.arr, q.left, j) ELSE swap(p.arr, j, q.right)
    IN  [q EXCEPT !.arr = a3,
                  !.left = IF q.k <= j THEN j + 1 ELSE @,
                  !.right = IF j <= q.k THEN j - 1 ELSE @]

\* the body of `while (right > left)`, arrays of at most 600 elements
quickselectLoop(q) ==
    LET t == At(q.arr, q.k)
        a1 == swap(q.arr, q.left, q.k)
        a2 == IF compare(q.c, At(a1, q.right), t) = 1
              THEN swap(a1, q.left, q.right) ELSE a1
        p == Partition(a2, q.c, t, q.left, q.right)
        same == compare(q.c, At(p.arr, q.left), t) = 0
        j == IF same THEN p.j ELSE p.j + 1
        a3 == IF same THEN swap(p.arr, q.left, j) ELSE swap(p.arr, j, q.right)
    IN  [q EXCEPT !.arr = a3,
                  !.left = IF j <= q.k THEN j + 1 ELSE @,
                  !.right = IF q.k <= j THEN j - 1 ELSE @]

\* quickselect(arr, compare, k, left, right)
RECURSIVE quickselectFrom(_)
quickselectFrom(q) ==
    IF q.right > q.left THEN quickselectFrom(quickselectLoop(q)) ELSE q.arr

quickselect(arr, c, k, left, right) ==
    quickselectFrom([arr |-> arr, c |-> c, k |-> k, left |-> left,
                     right |-> right])

\* the arrays quickselect is given: up to MaxLength elements, their keys up
\* to MaxValue
QuickselectArrays ==
    {[i \in 1..Len(keys) |-> <<keys[i], i>>] : keys \in MinIndexArrays}

----------------------------------------------------------------------------
(* BallTree over points of one coordinate, metric = euclidean.  An entry of
   arr, { element: e, index: i }, is <<e[0], i>> *)

LEAF_SIZE == 32

\* euclidean(a, b) of two points of one coordinate
metric(a, b) == Abs(a - b)

\* max - min of coordinate 0 over arr[left..right-1]
Spread(arr, left, right) ==
    LET vals == {arr[j + 1][1] : j \in left..(right - 1)}
        min == CHOOSE v \in vals : \A w \in vals : v <= w
        max == CHOOSE v \in vals : \A w \in vals : v >= w
    IN  max - min

\* the coordinate of greatest spread of arr[left..right-1], -1 if none
\* spreads
_greatest_spread(arr, left, right) ==
    IF Spread(arr, left, right) > 0 THEN 0 ELSE -1

\* the greatest metric(pivot, arr[i].element), i in left..right-1
Radius(arr, pivot, left, right) ==
    LET dists == {metric(pivot, arr[i + 1][1]) : i \in left..(right - 1)}
    IN  CHOOSE v \in dists \cup {0} : \A w \in dists : v >= w

\* the ball of arr[left..right-1] with half the radius it has
RECURSIVE _constructHalfRadius(_, _, _)
_constructHalfRadius(arr, left, right) ==
    LET p_idx == (left + right) \div 2
        c == _greatest_spread(arr, left, right)
        a == quickselect(arr, c, p_idx, left, right - 1)
        pivot == a[p_idx + 1][1]
        radius == Radius(a, pivot, left, right) \div 2
    IN  IF right - left > LEAF_SIZE
        THEN LET L == _constructHalfRadius(a, left, p_idx)
                 R == _constructHalfRadius(L.arr, p_idx, right)
             IN  [node |-> [pivot |-> pivot, radius |-> radius,
                            child1 |-> L.node, child2 |-> R.node],
                  arr |-> R.arr]
        ELSE [node |-> [pivot |-> pivot, radius |-> radius,
                        points |-> SubSeq(a, left + 1, right)],
              arr |-> a]

\* this._construct(arr, left, right): the ball of arr[left..right-1], and arr
\* as the call leaves it
RECURSIVE _construct(_, _, _)
_construct(arr, left, right) ==
    LET p_idx == (left + right) \div 2
        c == _greatest_spread(arr, left, right)
        a == quickselect(arr, c, p_idx, left, right - 1)
        pivot == a[p_idx + 1][1]
        radius == Radius(a, pivot, left, right)
    IN  IF right - left > LEAF_SIZE
        THEN LET L == _construct(a, left, p_idx)
                 R == _construct(L.arr, p_idx, right)
             IN  [node |-> [pivot |-> pivot, radius |-> radius,
                            child1 |-> L.node, child2 |-> R.node],
                  arr |-> R.arr]
        ELSE [node |-> [pivot |-> pivot, radius |-> radius,
                        points |-> SubSeq(a, left + 1, right)],
              arr |-> a]

\* new BallTree(elements)._root
add(elements) ==
    LET arr == [i \in 1..Len(elements) |-> <<elements[i], i - 1>>]
    IN  _construct(SubSeq(arr, 1, Len(arr)), 0, Len(elements)).node

\* Q.push(p) of the heap of search(t, k): accessor d => metric(d.element, t),
\* comparator "max"
QPush(Q, p, t) ==
    _heapify_up("max", Append(Q, [element |-> p, value |-> metric(p[1], t)]))

\* Q.pushPop(p) of a heap that is not empty
QPushPop(Q, p, t) ==
    LET value == metric(p[1], t)
    IN  IF comparator("max", Q[1].value, value)
        THEN _heapify_down("max",
                 [Q EXCEPT ![1] = [element |-> p, value |-> value]], 0)
        ELSE Q

\* for (const p of B.points)
RECURSIVE VisitPoints(_, _, _, _, _)
VisitPoints(Q, points, n, t, k) ==
    IF n > Len(points) THEN Q
    ELSE VisitPoints(IF Len(Q) < k THEN QPush(Q, points[n], t)
                     ELSE QPushPop(Q, points[n], t),
                     points, n + 1, t, k)

\* this._search(t, k, Q, B) on the search so far, S: the container of Q, the
\* number of balls passed over, and whether Q.first.value was read of the
\* null that the first of an empty heap is (a TypeError)
RECURSIVE _search(_, _, _, _)
_search(t, k, S, B) ==
    IF S.error THEN S
    ELSE IF Len(S.Q) >= k /\ Len(S.Q) = 0 THEN [S EXCEPT !.error = TRUE]
    ELSE IF Len(S.Q) >= k /\ metric(t, B.pivot) >= S.Q[1].value + B.radius
    THEN [S EXCEPT !.pruned = @ + 1]
    ELSE IF "points" \in DOMAIN B
    THEN [S EXCEPT !.Q = VisitPoints(S.Q, B.points, 1, t, k)]
    ELSE IF metric(t, B.child1.pivot) < metric(t, B.child2.pivot)
    THEN _search(t, k, _search(t, k, S, B.child1), B.child2)
    ELSE _search(t, k, _search(t, k, S, B.child2), B.child1)

\* tree.search(t, k) of the tree of root _root
BallTreeSearch(_root, t, k) ==
    LET S == _search(t, k, [Q |-> <<>>, pruned |-> 0, error |-> FALSE], _root)
    IN  IF S.error THEN [kind |-> "error", name |-> "TypeError"]
        ELSE [kind |-> "heap", container |-> S.Q, pruned |-> S.pruned]

\* the coordinates of the elements lie in 0..MaxCoordinate
MaxCoordinate == 96

\* search(t, k) is asked for up to MaxK neighbours
MaxK == 3

\* the queries lie MaxQuery apart
MaxQuery == 12

\* the trees are built of n elements laid out stride apart (modulo the
\* range of the coordinates): one leaf, a ball of two leaves, and balls of
\* balls
ElementArrays ==
    {[i \in 1..n |-> (i * stride) % (MaxCoordinate + 1)] :
        n \in {3, LEAF_SIZE + 1, 2 * LEAF_SIZE + 2}, stride \in {0, 1, 5, 37}}

Queries == {t \in 0..MaxCoordinate : t % MaxQuery = 0}

----------------------------------------------------------------------------
(* Randomizer (src/util/randomizer.js): the Mersenne Twister.  The values of
   the words are left out: a word is known by its index in this._mt *)

\* this._N, the number of words of this._mt
_N == 624

\* no word was read yet
NoRead == -1

\* the Randomizer after `this.seed = _seed`: the setter fills the words
\* mt[0..623] and sets this._mti = this._N
seeded == [_mti |-> _N, read |-> NoRead]

\* one read of the getter random_int: when this._mti >= this._N the words
\* are regenerated and this._mti = 0; then y = this._mt[(this._mti += 1)]
random_int(r) ==
    LET mti == IF r._mti >= _N THEN 0 ELSE r._mti
    IN  [r EXCEPT !._mti = mti + 1, !.read = mti + 1]

\* the reads follow the randomizer through MaxRegens regenerations
MaxRegens == 2

----------------------------------------------------------------------------
(* Actions *)

SetSelf(t) ==
    /\ X' = t.X
    /\ seed' = t.seed
    /\ dim' = t.dim
    /\ epsilon' = t.epsilon
    /\ beta' = t.beta
    /\ Y' = t.Y
    /\ _ystep' = t._ystep
    /\ _gains' = t._gains
    /\ _grad' = t._grad
    /\ _iter' = t._iter
    /\ _P' = t._P
    /\ initialized' = t.initialized
    /\ sched' = t.sched

\* the variables hold instance t
Constructed(t) ==
    /\ X = t.X
    /\ seed = t.seed
    /\ dim = t.dim
    /\ epsilon = t.epsilon
    /\ beta = t.beta
    /\ Y = t.Y
    /\ _ystep = t._ystep
    /\ _gains = t._gains
    /\ _grad = t._grad
    /\ _iter = t._iter
    /\ _P = t._P
    /\ initialized = t.initialized
    /\ sched = t.sched

\* the states after new TSNE(X, parameters), X among xs, the seed among ss,
\* d among ds and epsilon among es
Built(xs, ss, ds, es) ==
    /\ \E x \in xs, s \in ss, dm \in ds, eps \in es :
          \E b \in [1..Len(x) -> Betas] :
              Constructed(constructor(x, s, dm, eps, b))
    /\ gens = <<>>
    /\ ret = [kind |-> "none"]
    /\ tsteps = 0
    /\ inits = 0
    /\ Idle
    /\ Yref = YAddress
    /\ held = Unkept
    /\ twin = NoTwin

Init == Built(Inputs, Seeds, Dims, Epsilons)

\* one point or two, the default seed, d = 1, a small learning rate
InitFew == Built({OnePoint, TwoPoints}, {DefaultSeed}, {1}, SmallEpsilons)

\* a square or a wide input, d = 0 or 1
InitAny == Built({TwoPoints, Wide}, {DefaultSeed}, AnyDims, Epsilons)

\* two points, the default seed, d = 1
InitTwoPoints == Built({TwoPoints}, {DefaultSeed}, {1}, Epsilons)

\* the state after two instances were built from the same input, seed and
\* parameters
InitPair ==
    /\ \E b \in [1..Len(TwoPoints) -> Betas], eps \in Epsilons :
          /\ Constructed(constructor(TwoPoints, DefaultSeed, 1, eps, b))
          /\ twin = [inst |-> constructor(TwoPoints, DefaultSeed, 1, eps, b),
                     out |-> [kind |-> "none"], arg |-> 0]
    /\ gens = <<>>
    /\ ret = [kind |-> "none"]
    /\ tsteps = 0
    /\ inits = 0
    /\ Idle
    /\ Yref = YAddress
    /\ held = Unkept

\* the state after two instances were built from the same input, seed
\* parameter and parameters, each at its own clock time
InitSeededPair ==
    /\ \E b \in [1..Len(TwoPoints) -> Betas], eps \in Epsilons, s \in PairSeeds,
          now1 \in Clocks, now2 \in Clocks :
          /\ Constructed(constructorAt(TwoPoints, s, 1, eps, b, now1))
          /\ twin = [inst |-> constructorAt(TwoPoints, s, 1, eps, b, now2),
                     out |-> [kind |-> "none"], arg |-> 0]
    /\ gens = <<>>
    /\ ret = [kind |-> "none"]
    /\ tsteps = 0
    /\ inits = 0
    /\ Idle
    /\ Yref = YAddress
    /\ held = Unkept

\* the state after construction, on two points, of a consumer that keeps its
\* snapshots
InitKeeping ==
    /\ \E b \in [1..Len(TwoPoints) -> Betas], eps \in Epsilons :
          Constructed(constructor(TwoPoints, DefaultSeed, 1, eps, b))
    /\ gens = <<>>
    /\ ret = [kind |-> "none"]
    /\ tsteps = 0
    /\ inits = 0
    /\ twin = NoTwin
    /\ Idle
    /\ Yref = YAddress
    /\ held = [keeps |-> TRUE, snaps |-> <<>>]

\* the effect of a call on the references: this.Y after its steps, and the
\* snapshot the consumer keeps of a value it was handed
Hand(out) ==
    /\ Yref' = IF _iter' # _iter THEN nextRef(Yref) ELSE Yref
    /\ held' = IF held.keeps /\ "value" \in DOMAIN out
                    /\ Len(held.snaps) < MaxHeld
               THEN [held EXCEPT !.snaps =
                        Append(@, [ref |-> projectionRef(Yref'),
                                   copy |-> out.value, at |-> _iter'])]
               ELSE held

\* tsne.init()
InitCall ==
    /\ inits < MaxInits
    /\ SetSelf(init(Self))
    /\ ret' = [kind |-> "this"]
    /\ inits' = inits + 1
    /\ UNCHANGED <<gens, tsteps, twin>>
    /\ UNCHANGED aside
    /\ UNCHANGED refs

\* init() on both instances of a pair
PairInitCall ==
    /\ inits < MaxInits
    /\ SetSelf(init(Self))
    /\ twin' = [twin EXCEPT !.inst = init(@)]
    /\ ret' = [kind |-> "this"]
    /\ inits' = inits + 1
    /\ UNCHANGED <<gens, tsteps>>
    /\ UNCHANGED aside
    /\ UNCHANGED refs

\* the one transform(k) of the second instance of a pair; a call that threw
\* may be repeated
TwinTransformCall(k) ==
    /\ twin.out.kind # "value"
    /\ twin.inst._iter + k <= MaxIter
    /\ LET r == transform(twin.inst, k)
       IN  twin' = [inst |-> r.inst, out |-> r.out, arg |-> k]
    /\ UNCHANGED <<X, seed, dim, epsilon, beta, Y, _ystep, _gains, _grad, _iter,
                   _P,
                   initialized, sched, gens, ret, tsteps, inits>>
    /\ UNCHANGED aside
    /\ UNCHANGED refs

\* tsne.transform(k), while the counter stays within cap
TransformCall(k, cap) ==
    /\ _iter + k <= cap
    /\ LET r == transform(Self, k)
       IN  /\ SetSelf(r.inst)
           /\ ret' = r.out
           /\ Hand(r.out)
           /\ tsteps' = tsteps + (r.inst._iter - _iter)
    /\ UNCHANGED <<gens, inits, twin>>
    /\ UNCHANGED aside

\* tsne.next(), called directly, while the counter stays within cap
StepCall(cap) ==
    /\ _iter < cap
    /\ LET r == nextCall(Self)
       IN  /\ SetSelf(r.inst)
           /\ ret' = r.out
    /\ UNCHANGED <<gens, tsteps, inits, twin>>
    /\ UNCHANGED aside
    /\ Yref' = IF _iter' # _iter THEN nextRef(Yref) ELSE Yref
    /\ UNCHANGED held

\* tsne.generator(n)
GeneratorCall(n) ==
    /\ Len(gens) < MaxGens
    /\ gens' = Append(gens, generator(n))
    /\ ret' = [kind |-> "generator", gen |-> Len(gens) + 1]
    /\ UNCHANGED <<X, seed, dim, epsilon, beta, Y, _ystep, _gains, _grad, _iter,
                   _P,
                   initialized, sched, tsteps, inits, twin>>
    /\ UNCHANGED aside
    /\ UNCHANGED refs

\* a pull on generator object g, while the counter stays within cap
PullCall(g, cap) ==
    /\ g \in 1..Len(gens)
    /\ _iter < cap \/ gens[g].st = "done" \/ ~initialized
         \/ (gens[g].st = "start" /\ gens[g].iterations = 0)
         \/ (gens[g].st = "yield" /\ gens[g].i + 1 >= gens[g].iterations)
    /\ LET r == resume(gens[g], Self)
       IN  /\ SetSelf(r.inst)
           /\ gens' = [gens EXCEPT ![g] = r.gen]
           /\ ret' = r.out
           /\ Hand(r.out)
    /\ UNCHANGED <<tsteps, inits, twin>>
    /\ UNCHANGED aside

\* every operation, on two points
Next ==
    \/ InitCall
    \/ \E k \in 0..MaxTransform : TransformCall(k, MaxIter)
    \/ \E n \in 0..MaxGenIter : GeneratorCall(n)
    \/ \E g \in 1..MaxGens : PullCall(g, MaxIter)

Spec == InitTwoPoints /\ [][Next]_vars

\* one init(), transform() calls and the pulls of one generator, the
\* consumer keeping the snapshots it is handed
NextKeeping ==
    \/ inits = 0 /\ InitCall
    \/ \E k \in 0..MaxTransform : TransformCall(k, MaxIter)
    \/ Len(gens) = 0 /\ \E n \in 0..MaxGenIter : GeneratorCall(n)
    \/ PullCall(1, MaxIter)

SpecKeeping == InitKeeping /\ [][NextKeeping]_vars

\* every operation and next() itself, on two points
NextCalls ==
    \/ InitCall
    \/ StepCall(MaxIter)
    \/ \E k \in 0..MaxTransform : TransformCall(k, MaxIter)
    \/ \E n \in 0..MaxGenIter : GeneratorCall(n)
    \/ \E g \in 1..MaxGens : PullCall(g, MaxIter)

SpecCalls == InitTwoPoints /\ [][NextCalls]_vars

\* init(), next() and transform() on inputs and parameters the
\* documentation excludes
NextInvalid ==
    \/ InitCall
    \/ StepCall(MaxIter)
    \/ \E k \in 0..MaxTransform : TransformCall(k, MaxIter)

SpecInvalid == InitAny /\ [][NextInvalid]_vars

\* heap.push(e)
Push(e) ==
    /\ Len(heap.container) < MaxHeap
    /\ LET r == push(heap, e)
       IN  /\ heap' = r.heap
           /\ hlast' = [op |-> "push", out |-> r.out]
    /\ UNCHANGED <<tsne, search, rest>>

\* heap.pop()
Pop ==
    /\ LET r == pop(heap)
       IN  /\ heap' = r.heap
           /\ hlast' = [op |-> "pop", out |-> r.out]
    /\ UNCHANGED <<tsne, search, rest>>

\* heap.pushPop(e); alt is what heap.push(e) followed by heap.pop() would
\* have returned and left
PushPop(e) ==
    /\ LET r == pushPop(heap, e)
       IN  /\ heap' = r.heap
           /\ hlast' = [op |-> "pushPop", out |-> r.out,
                        alt |-> pop(push(heap, e).heap)]
    /\ UNCHANGED <<tsne, search, rest>>

NextHeap ==
    \/ \E e \in Elements : Push(e)
    \/ Pop
    \/ \E e \in Elements : PushPop(e)

\* an instance on two points that no call is made on
Beside ==
    /\ Constructed(constructor(TwoPoints, DefaultSeed, 1, 10,
                               [i \in 1..Len(TwoPoints) |-> 17]))
    /\ gens = <<>>
    /\ ret = [kind |-> "none"]
    /\ tsteps = 0
    /\ inits = 0
    /\ twin = NoTwin
    /\ Yref = YAddress
    /\ held = Unkept

\* the Arrays and Sets heapify is given: up to MaxHeap elements, those of a
\* Set distinct
Collections ==
    LET seqs == UNION {[1..n -> Elements] : n \in 0..MaxHeap}
    IN  {[kind |-> "Array", items |-> q] : q \in seqs}
        \cup {[kind |-> "Set", items |-> q] :
                 q \in {r \in seqs : \A i, j \in 1..Len(r) :
                                         r[i] = r[j] => i = j}}

\* the state after Heap.heapify(elements, accessor, c)
InitHeapify ==
    /\ Beside
    /\ search = NoSearch
    /\ \E elements \in Collections, c \in {"min", "max"} :
          heap = heapify(elements, c)
    /\ hlast = [op |-> "none"]
    /\ IdleRest

\* a heap built from a collection and used through push, pop and pushPop
SpecHeapify == InitHeapify /\ [][NextHeap]_vars

\* the state after new Heap(null, d => d, c), beside an instance on two
\* points
InitHeap ==
    /\ \E b \in [1..Len(TwoPoints) -> Betas], eps \in Epsilons :
          Constructed(constructor(TwoPoints, DefaultSeed, 1, eps, b))
    /\ gens = <<>>
    /\ ret = [kind |-> "none"]
    /\ tsteps = 0
    /\ inits = 0
    /\ twin = NoTwin
    /\ search = NoSearch
    /\ Yref = YAddress
    /\ held = Unkept
    /\ heap \in {Heap(c) : c \in {"min", "max"}}
    /\ hlast = [op |-> "none"]
    /\ IdleRest

\* a heap built empty and used through push, pop and pushPop
SpecHeap == InitHeap /\ [][NextHeap]_vars

\* the state before min_index(values)
InitMinIndex ==
    /\ Beside
    /\ Quiet
    /\ \E values \in MinIndexArrays :
          call = [fn |-> "min_index", values |-> values, made |-> FALSE]

\* min_index(values)
MinIndexCall ==
    /\ call.fn = "min_index"
    /\ ~call.made
    /\ call' = [call EXCEPT !.made = TRUE] @@ [out |-> min_index(call.values)]
    /\ UNCHANGED <<tsne, search, heaps>>

SpecMinIndex == InitMinIndex /\ [][MinIndexCall]_vars

\* a call quickselect(arr, compare, k, left, right), left <= k <= right, at
\* the test of its loop
InitQuickselect ==
    /\ Beside
    /\ Quiet
    /\ \E arr \in QuickselectArrays :
          \E left \in 0..(Len(arr) - 1), right \in 0..(Len(arr) - 1) :
              \E k \in left..right :
                  call = [fn |-> "quickselect", given |-> arr, to |-> k,
                          from |-> left, upto |-> right, arr |-> arr,
                          c |-> 0, k |-> k,
                          left |-> left, right |-> right, made |-> FALSE]

\* one round of `while (right > left)`
QuickselectLoop ==
    /\ call.fn = "quickselect"
    /\ ~call.made
    /\ call.right > call.left
    /\ call' = quickselectLoop(call)
    /\ UNCHANGED <<tsne, search, heaps>>

\* return arr
QuickselectReturn ==
    /\ call.fn = "quickselect"
    /\ ~call.made
    /\ ~(call.right > call.left)
    /\ call' = [call EXCEPT !.made = TRUE]
    /\ UNCHANGED <<tsne, search, heaps>>

NextQuickselect == QuickselectLoop \/ QuickselectReturn

SpecQuickselect == InitQuickselect /\ [][NextQuickselect]_vars

\* the state after new Randomizer(_seed): since holds the indices read
\* since the last regeneration, twice whether one of them was read twice,
\* prior what since held when the words were last regenerated
InitRandomizer ==
    /\ Beside
    /\ Quiet
    /\ call = [fn |-> "Randomizer", r |-> seeded, regens |-> 0, since |-> {},
               twice |-> FALSE, prior |-> {}]

\* randomizer.random_int
RandomIntCall ==
    /\ call.fn = "Randomizer"
    /\ call.r._mti < _N \/ call.regens < MaxRegens
    /\ LET r == random_int(call.r)
           regen == call.r._mti >= _N
           since == IF regen THEN {} ELSE call.since
       IN  call' = [call EXCEPT !.r = r,
                                !.regens = IF regen THEN @ + 1 ELSE @,
                                !.prior = IF regen THEN call.since ELSE @,
                                !.since = since \cup {r.read},
                                !.twice = IF regen THEN FALSE
                                          ELSE @ \/ r.read \in since]
    /\ UNCHANGED <<tsne, search, heaps>>

SpecRandomizer == InitRandomizer /\ [][RandomIntCall]_vars

\* elements, a query and a number of neighbours, before the tree is built
InitBallTree ==
    /\ Beside
    /\ Quiet
    /\ \E elements \in ElementArrays, t \in Queries, k \in 0..MaxK :
          call = [fn |-> "BallTree", elements |-> elements, t |-> t, k |-> k,
                  built |-> FALSE, made |-> FALSE]

\* tree = new BallTree(elements)
BallTreeCall ==
    /\ call.fn = "BallTree"
    /\ ~call.built
    /\ call' = [call EXCEPT !.built = TRUE] @@ [_root |-> add(call.elements)]
    /\ UNCHANGED <<tsne, search, heaps>>

\* tree.search(t, k)
SearchTreeCall ==
    /\ call.fn = "BallTree"
    /\ call.built
    /\ ~call.made
    /\ call' = [call EXCEPT !.made = TRUE]
                @@ [out |-> BallTreeSearch(call._root, call.t, call.k)]
    /\ UNCHANGED <<tsne, search, heaps>>

NextBallTree == BallTreeCall \/ SearchTreeCall

SpecBallTree == InitBallTree /\ [][NextBallTree]_vars

\* init() entered
SearchCall ==
    /\ search.pc = "idle"
    /\ search' = searchStart
    /\ UNCHANGED tsne
    /\ UNCHANGED <<heaps, rest>>

\* the row loop of init() goes on to row i
RowStart ==
    /\ search.pc = "row"
    /\ search.i < Len(X)
    /\ search' = rowStart(search)
    /\ UNCHANGED tsne
    /\ UNCHANGED <<heaps, rest>>

\* one round of the binary search of a row
WhileStep ==
    /\ search.pc = "while"
    /\ search' = whileStep(Self, search)
    /\ UNCHANGED tsne
    /\ UNCHANGED <<heaps, rest>>

\* the row is normalised
RowEnd ==
    /\ search.pc = "normalize"
    /\ search' = rowEnd(search)
    /\ UNCHANGED tsne
    /\ UNCHANGED <<heaps, rest>>

\* the row loop is over: P is symmetrised and init() returns
SearchReturn ==
    /\ search.pc = "row"
    /\ search.i = Len(X)
    /\ SetSelf(init(Self))
    /\ search' = [search EXCEPT !.pc = "returned"]
    /\ ret' = [kind |-> "this"]
    /\ inits' = inits + 1
    /\ UNCHANGED <<gens, tsteps, twin>>
    /\ UNCHANGED refs
    /\ UNCHANGED <<heaps, rest>>

\* init() run statement by statement
NextSearch ==
    \/ SearchCall
    \/ RowStart
    \/ WhileStep
    \/ RowEnd
    \/ SearchReturn

\* the row loop of init()
SearchLoop == SearchCall \/ RowStart \/ WhileStep \/ RowEnd

\* the control part of SearchReturn
SearchReturns ==
    /\ search.pc = "row"
    /\ search.i = Len(X)
    /\ search' = [search EXCEPT !.pc = "returned"]

\* the precisions the searches of SpecBisect look for
SearchBetas == {17, 19}

\* one point or two, the default seed, d = 1, a small learning rate, the
\* target of a search on either side of the first midpoint
InitBisect ==
    /\ \E x \in {OnePoint, TwoPoints}, eps \in SmallEpsilons :
          \E b \in [1..Len(x) -> SearchBetas] :
              Constructed(constructor(x, DefaultSeed, 1, eps, b))
    /\ gens = <<>>
    /\ ret = [kind |-> "none"]
    /\ tsteps = 0
    /\ inits = 0
    /\ Idle
    /\ Yref = YAddress
    /\ held = Unkept
    /\ twin = NoTwin

SpecBisect == InitBisect /\ [][NextSearch]_vars

\* a sequential program: the statement at hand is executed
SpecSearch ==
    /\ InitFew
    /\ [][NextSearch]_vars
    /\ WF_vars(SearchLoop)
    /\ WF_search(SearchReturns)

\* a run past the momentum switch: init(), then next() and
\* transform(LateJump) calls
NextLate ==
    \/ _iter = 0 /\ InitCall
    \/ initialized /\ StepCall(MaxLateIter)
    \/ initialized /\ TransformCall(LateJump, MaxLateIter)

SpecLate == InitFew /\ [][NextLate]_vars

\* init() and transform() on every input
NextSteps ==
    \/ InitCall
    \/ \E k \in 0..MaxTransform : TransformCall(k, MaxIter)

SpecSteps == Init /\ [][NextSteps]_vars

\* a long run: transform(LongJump) calls, then a generator and its pulls
NextLong ==
    \/ InitCall
    \/ TransformCall(LongJump, MaxLongIter)
    \/ _iter >= 4 * LongJump /\ GeneratorCall(MaxGenIter)
    \/ \E g \in 1..MaxGens : PullCall(g, MaxLongIter)

SpecLong == Init /\ [][NextLong]_vars

\* the `iterations` argument of the four long transform() of SpecShared:
\* they end short of the end of the exaggeration, which the generators then
\* cross
SharedJump == (ExaggerationEnd - MaxGenIter) \div 4

\* tsne.generator(n), the first or the second generator of the instance
SharedGeneratorCall(n) ==
    /\ Len(gens) < 2
    /\ gens' = Append(gens, generator(n))
    /\ ret' = [kind |-> "generator", gen |-> Len(gens) + 1]
    /\ UNCHANGED <<X, seed, dim, epsilon, beta, Y, _ystep, _gains, _grad, _iter,
                   _P,
                   initialized, sched, tsteps, inits, twin>>
    /\ UNCHANGED aside
    /\ UNCHANGED refs

\* one init(), then transform() calls and the pulls of two generators of the
\* instance, in any order
NextShared ==
    \/ inits = 0 /\ InitCall
    \/ initialized /\ _iter \in {j * SharedJump : j \in 0..3}
          /\ TransformCall(SharedJump, MaxLongIter)
    \/ initialized /\ \E k \in 0..1 : TransformCall(k, MaxLongIter)
    \/ initialized /\ \E n \in 0..MaxGenIter : SharedGeneratorCall(n)
    \/ \E g \in 1..2 : PullCall(g, MaxLongIter)

SpecShared == InitTwoPoints /\ [][NextShared]_vars

\* two instances built alike: one generator(n) on the one, one transform(k)
\* on the other
NextPair ==
    \/ PairInitCall
    \/ \E k \in 0..MaxGenIter : TwinTransformCall(k)
    \/ Len(gens) = 0 /\ \E n \in 0..MaxGenIter : GeneratorCall(n)
    \/ PullCall(1, MaxIter)

SpecPair == InitPair /\ [][NextPair]_vars

\* the same calls on a pair built with a seed parameter of 0 or 1212
SpecSeededPair == InitSeededPair /\ [][NextPair]_vars

----------------------------------------------------------------------------
(* Properties *)

N == Len(X)

\* C1: every entry of the gains matrix is at least 0.01, after init() and
\* any number of steps
C1_GainsAtLeastFloor ==
    \A k \in DOMAIN _gains : _gains[k] >= GainFloor

\* steps were made and a gain sits on the floor
C1_Witness ==
    /\ initialized
    /\ _iter > 0
    /\ \E k \in DOMAIN _gains : _gains[k] = GainFloor

\* C2: after a step every column of Y sums to zero, up to the rounding of
\* the division by N
C2_Centered ==
    _iter > 0 => \A d \in 0..(dim - 1) : Abs(ColSum(Y, dim, d, N)) < N

\* steps were made on several points that moved
C2_Witness ==
    /\ _iter > 1
    /\ N > 1
    /\ \E k \in DOMAIN _ystep : _ystep[k] # 0
    /\ \E k \in DOMAIN Y : Y[k] # 0

\* C3: the gradient every step works with is the sum over j # i of
\* 4 * (pmul * P[i,j] - Q[i,j] / qsum) * Q[i,j] * (Y[i] - Y[j]), from the
\* current Y, P and pmul alone, nothing of an earlier step's gradient being
\* carried into it
C3_GradientRecomputed ==
    [][_iter' = _iter + 1 =>
          _grad' = GradientFresh(_grad, Y, _P, N, dim, Pmul(_iter'))]_vars

\* C4: counting steps from 1, the exaggeration factor of step k is 4 for
\* k < 100 and 1 from the 100th step on, and never returns to 4
C4_ExaggerationSchedule ==
    /\ \A k \in 1..Len(sched) : sched[k][1] = IF k < 100 THEN 4 ELSE 1
    /\ \A k, l \in 1..Len(sched) : k < l /\ sched[k][1] = 1 => sched[l][1] = 1

\* the 100th step and one after it were made
C4_Witness ==
    /\ Len(sched) > 100
    /\ sched[99][1] = 4
    /\ sched[100][1] = 1

\* C5: after init() P is symmetric, P[i,j] = P[j,i] for all i, j, and it
\* stays so through the steps
C5_PSymmetric ==
    initialized =>
        \A i, j \in 0..(N - 1) : entry(_P, N, i, j) = entry(_P, N, j, i)

\* steps were made on a P whose rows, before symmetrisation, differed from
\* its columns
C5_Witness ==
    /\ initialized
    /\ _iter > 0
    /\ LET C == ConditionalP(X, beta)
       IN  \E i, j \in 0..(N - 1) : entry(C, N, i, j) # entry(C, N, j, i)

\* a fraction within 1e-9 of 1
WithinNano(f) == f[1] = f[2] \/ f[2] \div Abs(f[1] - f[2]) >= 10^9

\* C6: immediately after init() the entries of P, diagonal included, sum to 1
\* within 1e-9, and none is negative
C6_SumsToOne ==
    ret.kind = "this" =>
        /\ WithinNano(FSum(_P, N * N))
        /\ \A k \in DOMAIN _P : _P[k][1] >= 0

\* p_{j|i}: row i of the kernel at the precision its search stopped at,
\* divided by its sum
Conditional(i, j) ==
    LET K_i == KernelRow(X[i + 1], i + 1, beta[i + 1], N)
    IN  Frac(K_i[j + 1], Sum(K_i, N))

\* (p_{j|i} + p_{i|j}) / (2N)
Joint(i, j) ==
    LET s == FAdd(Conditional(i, j), Conditional(j, i))
    IN  Frac(s[1], s[2] * 2 * N)

\* C7: immediately after init(), P[i,j] = (p_{j|i} + p_{i|j}) / (2N) for all
\* pairs i, j, the pairs i = j included
C7_JointFormula ==
    ret.kind = "this" =>
        \A i, j \in 0..(N - 1) : entry(_P, N, i, j) = Joint(i, j)

\* C8: each pull of a generator makes exactly one step and yields its
\* projection; none is made at creation, between pulls or ahead of a pull, so
\* that after m pulls of the only caller of a fresh instance the counter is m
C8_OneStepPerPull ==
    /\ ret.kind = "yield" => ret.value = Y
    /\ \A g \in 1..Len(gens) :
          LET G == gens[g]
          IN  /\ G.st = "start" => G.pulls = 0 /\ G.steps = 0 /\ G.yields = 0
              /\ G.st = "yield" => G.steps = G.pulls /\ G.yields = G.pulls
              /\ G.st # "done" /\ tsteps = 0 /\ Len(gens) = 1 => _iter = G.pulls

\* two pulls were made on the generator of a fresh instance
C8_Witness ==
    \E g \in 1..Len(gens) :
        /\ gens[g].st = "yield"
        /\ gens[g].pulls = 2
        /\ tsteps = 0
        /\ _iter = 2

\* C9: generator(n) yields exactly n snapshots and then completes; a pull
\* after completion makes no step and yields nothing
C9_ExactlyNSnapshots ==
    /\ [](\A g \in 1..Len(gens) :
             LET G == gens[g]
             IN  /\ G.yields <= G.iterations
                 /\ G.st = "done" /\ ~G.threw =>
                        G.yields = G.iterations /\ G.steps = G.iterations)
    /\ [][\A g \in 1..Len(gens) :
             gens[g].st = "done" /\ PullCall(g, MaxIter) =>
                 /\ UNCHANGED <<Y, _ystep, _gains, _grad, _iter, _P, gens>>
                 /\ ret' = [kind |-> "done"]]_vars

\* a generator of two iterations completed and was pulled again
C9_Witness ==
    \E g \in 1..Len(gens) :
        /\ gens[g].st = "done"
        /\ gens[g].iterations = 2
        /\ gens[g].yields = 2
        /\ ret = [kind |-> "done"]

\* generator g alone stepped the first instance of a pair and the second
\* made transform(n) with the same n
PairRan(g) ==
    /\ ~gens[g].threw
    /\ gens[g].steps = _iter
    /\ twin.out.kind = "value"
    /\ twin.arg = gens[g].iterations

\* generator g has yielded its last snapshot
Exhausted(g) ==
    \/ gens[g].st = "done"
    \/ gens[g].st = "yield" /\ gens[g].yields = gens[g].iterations

\* C10: of two instances built and initialised alike, the one whose
\* generator(n) was pulled to its end and the one that made transform(n) have
\* the same Y, velocity, gains and counter, and the n-th snapshot is the
\* value transform(n) returned
C10_GeneratorMatchesTransform ==
    \A g \in 1..Len(gens) :
        PairRan(g) /\ Exhausted(g) =>
            /\ Y = twin.inst.Y
            /\ _ystep = twin.inst._ystep
            /\ _gains = twin.inst._gains
            /\ _iter = twin.inst._iter
            /\ ret.kind \in {"yield", "return"} => ret.value = twin.out.value

\* the second of two snapshots was just yielded and transform(2) has run
C10_Witness ==
    \E g \in 1..Len(gens) :
        /\ PairRan(g)
        /\ gens[g].iterations = 2
        /\ gens[g].st = "yield"
        /\ gens[g].yields = 2
        /\ ret.kind = "yield"
        /\ _iter = 2

\* C11: transform(), a generator pull or a step made before init() is
\* reported as an error and makes no step: Y, velocity, gains and the
\* counter stay as they were
C11_NoStepBeforeInit ==
    [][(/\ ~initialized
        /\ \/ StepCall(MaxIter)
           \/ \E k \in 0..MaxTransform : TransformCall(k, MaxIter)
           \/ \E g \in 1..Len(gens) : PullCall(g, MaxIter))
       => /\ ret'.kind = "error"
          /\ UNCHANGED <<Y, _ystep, _gains, _iter>>]_vars

\* C12: immediately after any init() call, a second one made after steps
\* included, the velocity is all zeros, the gains are all ones and Y is small
\* Gaussian noise (at most 2e-4 in size here)
C12_InitResetsState ==
    ret.kind = "this" =>
        /\ \A k \in DOMAIN _ystep : _ystep[k] = 0
        /\ \A k \in DOMAIN _gains : _gains[k] = GainUnit
        /\ \A k \in DOMAIN Y : Abs(Y[k]) <= 2

\* C13: steps, through next(), transform() or generator pulls, leave every
\* entry of P and of the input X as it was
C13_StepsKeepPAndX ==
    [][initialized /\ _iter' # _iter => _P' = _P /\ X' = X]_vars

\* steps were made after init() by transform() and by a generator
C13_Witness ==
    /\ initialized
    /\ tsteps > 0
    /\ \E g \in 1..Len(gens) : gens[g].steps > 0

\* C14: counting next() calls from 1, the momentum coefficient of call k is
\* 0.5 for k < 250 and 0.8 from the 250th call on
C14_MomentumSchedule ==
    \A k \in 1..Len(sched) : sched[k][2] = IF k < 250 THEN 5 ELSE 8

\* the 250th step and one after it were made
C14_Witness ==
    /\ initialized
    /\ Len(sched) > 250
    /\ sched[249][2] = 5
    /\ sched[250][2] = 8

\* C15: of two instances built from the same input, seed parameter and
\* parameters and initialised alike, the one whose generator(n) was pulled to
\* its end and the one that made transform(n) have the same embedding, for
\* every seed, 0 included
C15_SameSeedSameEmbedding ==
    \A g \in 1..Len(gens) :
        PairRan(g) /\ Exhausted(g) /\ seed = twin.inst.seed =>
            Y = twin.inst.Y

\* in the row at hand and in the rows done, the kernel was evaluated at most
\* maxtries times and not once after an evaluation that met the target
SearchBounded ==
    /\ search.pc \in {"while", "normalize"} =>
          /\ search.evals <= maxtries
          /\ search.hitAt # 0 => search.evals = search.hitAt
    /\ search.pc \in {"row", "while", "normalize", "returned"} =>
          \A r \in 1..Len(search.rows) :
              /\ search.rows[r].evals <= maxtries
              /\ search.rows[r].hitAt \in {0, search.rows[r].evals}

\* C16: the binary search of a row evaluates the kernel at most 50 times and
\* stops at the first evaluation whose entropy is within the tolerance of
\* the target, and init() terminates
C16_SearchBoundedAndEnds ==
    []SearchBounded /\ <>(search.pc = "returned")

\* init() has returned after searches that stopped at a hit before the tries
\* ran out, at the precision P was computed with
C16_Witness ==
    /\ search.pc = "returned"
    /\ initialized
    /\ Len(search.rows) = 2
    /\ \A r \in 1..2 :
          /\ search.rows[r].hitAt \in 2..(maxtries - 1)
          /\ search.rows[r].beta = Dyadic(beta[r], 0)

\* what the consumer reads now through the reference of snapshot h
Read(h) == IF h.ref = Yref THEN Y ELSE h.copy

\* C17: the value returned by transform() and every snapshot yielded by
\* generator() is the storage of this.Y itself: whatever the consumer kept,
\* reading through it gives the current embedding, not the one it was handed
C17_SnapshotsShareStorage ==
    \A h \in 1..Len(held.snaps) : Read(held.snaps[h]) = Y

\* the snapshots of two consecutive pulls were kept, and the first no longer
\* shows the embedding it showed when it was yielded
C17_Witness ==
    /\ Len(held.snaps) = 2
    /\ ret.kind = "yield"
    /\ \E g \in 1..Len(gens) : gens[g].yields = 2 /\ gens[g].steps = 2
    /\ held.snaps[2].at = held.snaps[1].at + 1
    /\ held.snaps[1].copy # Y
    /\ held.snaps[2].copy = Y
    /\ Read(held.snaps[1]) = Y

\* C18: init() on a precomputed matrix that is not square reports an error
\* and computes no P
C18_NonSquareReported ==
    [][Len(X[1]) # Len(X) /\ InitCall =>
          ret'.kind = "error" /\ _P' = _P]_vars

\* C19: with d <= 0, init() reports an error, and no call advances the
\* counter
C19_InvalidDimensionReported ==
    [][dim <= 0 =>
          /\ InitCall => ret'.kind = "error"
          /\ _iter' = _iter]_vars

\* the number of entries of value v in a container
CountOf(container, v) ==
    Cardinality({k \in 1..Len(container) : container[k].value = v})

\* C20: whatever the heap, pushPop(e) returns an entry of the value that
\* push(e) followed by pop() returns, and leaves a container of the same
\* length holding every value as many times
C20_PushPopIsPushThenPop ==
    hlast.op = "pushPop" =>
        /\ hlast.out.kind = "entry"
        /\ hlast.alt.out.kind = "entry"
        /\ hlast.out.entry.value = hlast.alt.out.entry.value
        /\ Len(heap.container) = Len(hlast.alt.heap.container)
        /\ \A e \in Elements :
              CountOf(heap.container, accessor(e))
                  = CountOf(hlast.alt.heap.container, accessor(e))

\* the comparator never strictly prefers a child's value to its parent's
HeapOrder ==
    \A k \in 2..Len(heap.container) :
        ~comparator(heap.comparator, heap.container[k].value,
                    heap.container[k \div 2].value)

\* `first` is an entry no other entry is strictly preferred to
FirstRanksFirst ==
    \A k \in 1..Len(heap.container) :
        ~comparator(heap.comparator, heap.container[k].value,
                    heap.container[1].value)

\* of two pop() calls in a row, the second does not return an entry the
\* comparator strictly prefers to the one the first returned
PopOrder ==
    (/\ hlast.op = "pop" /\ hlast.out.kind = "entry"
     /\ hlast'.op = "pop" /\ hlast'.out.kind = "entry")
        => ~comparator(heap.comparator, hlast'.out.entry.value,
                       hlast.out.entry.value)

\* C21: after heapify and after any push, pop and pushPop the heap order
\* holds, `first` ranks first, and pop() calls in a row return entries in
\* comparator order
C21_HeapOrdered ==
    [](HeapOrder /\ FirstRanksFirst) /\ [][PopOrder]_vars

GainRule(g) ==
    \A k \in DOMAIN _gains :
        _gains'[k] = IF sgn(g[k]) # sgn(_ystep[k])
                     THEN Max(_gains[k] + 20, 1)
                     ELSE Max(Div(_gains[k] * 8, 10), 1)

\* C24: in a step, where the sign of the gradient of that step differs from
\* the sign of the prior velocity the new gain is max(gain + 0.2, 0.01),
\* where the signs agree it is max(0.8 * gain, 0.01)
C24_GainRule ==
    [][initialized /\ dim > 0 /\ _iter' = _iter + 1 =>
          GainRule(GradientFresh(_grad, Y, _P, N, dim, Pmul(_iter')))]_vars

\* C25: the counter is 0 after construction, never decreases, rises by
\* exactly 1 in every next() and by exactly k in a transform(k) that returns
C25_CounterCounts ==
    /\ _iter = 0
    /\ [][/\ _iter' >= _iter
          /\ StepCall(MaxIter) => _iter' = _iter + 1
          /\ \A k \in 0..MaxTransform :
                TransformCall(k, MaxIter) /\ ret'.kind = "value" =>
                    _iter' = _iter + k]_vars

\* next() was called and transform(2) has returned
C25_Witness ==
    /\ ret.kind = "value"
    /\ tsteps = 2
    /\ _iter = 3
    /\ Len(sched) = 3

\* the precision of a search lies strictly between its bounds
BetaBracketed ==
    search.pc \in {"while", "normalize"} =>
        /\ search.beta[1] > 0
        /\ DyLess(search.betamin, search.beta)
        /\ DyLess(search.beta, search.betamax)

\* an evaluation that did not meet the target moves one bound to beta and
\* beta away from it
BetaUpdate ==
    search.pc = "while" /\ search'.pc = "while"
    /\ search'.evals = search.evals + 1 =>
        IF entropy(Self, search.i, search.beta) = "above"
        THEN /\ search'.betamin = search.beta
             /\ search'.betamax = search.betamax
             /\ search'.beta = IF search.betamax = Infinity
                               THEN Twice(search.beta)
                               ELSE Mean(search'.betamin, search'.betamax)
        ELSE /\ search'.betamax = search.beta
             /\ search'.betamin = search.betamin
             /\ search'.beta = IF search.betamin = NegInfinity
                               THEN Half(search.beta)
                               ELSE Mean(search'.betamin, search'.betamax)

\* C26: throughout the search of a row beta is positive and strictly
\* between betamin and betamax; an entropy above the target makes beta the
\* lower bound and doubles beta while no upper bound is known, else moves it
\* to the midpoint of the bounds; an entropy not above the target makes beta
\* the upper bound and halves beta while no lower bound is known, else moves
\* it to the midpoint
C26_BetaBracketed == []BetaBracketed /\ [][BetaUpdate]_vars

\* a search has bisected upwards between two known bounds: 18 was too low,
\* 20 too high
C26_Witness ==
    /\ search.pc = "while"
    /\ search.betamin = Dyadic(18, 0)
    /\ search.betamax = Dyadic(20, 0)
    /\ search.beta = Dyadic(19, 0)

\* the row has no precision that meets the target
Degenerate(x) == Len(x) = 1

Permuted(given, arr) ==
    /\ Len(arr) = Len(given)
    /\ \A p \in 1..Len(given) : \E q \in 1..Len(arr) : arr[q] = given[p]

\* what quickselect has returned: a permutation, arr[k] in its sorted place
\* within left..right, nothing moved outside left..right
Selected ==
    call.fn = "quickselect" /\ call.made =>
        /\ Permuted(call.given, call.arr)
        /\ \A p \in call.from..(call.to - 1) :
              At(call.arr, p)[1] <= At(call.arr, call.to)[1]
        /\ \A p \in (call.to + 1)..call.upto :
              At(call.arr, call.to)[1] <= At(call.arr, p)[1]
        /\ \A p \in 0..(Len(call.arr) - 1) :
              p \notin call.from..call.upto =>
                  At(call.arr, p) = At(call.given, p)

\* every round of the loop leaves a shorter range to look at, around k
Narrowing ==
    QuickselectLoop =>
        /\ call'.right - call'.left < call.right - call.left
        /\ call'.left <= call.k + 1
        /\ call.k - 1 <= call'.right

\* C28: quickselect(arr, compare, k, left, right) with left <= k <= right
\* returns (each round of its loop narrows the range), and arr is then a permutation of what it was, no element of
\* arr[left..k-1] ranks after arr[k], none of arr[k+1..right] before it, and
\* the elements outside left..right are where they were
C28_QuickselectSelects == []Selected /\ [][Narrowing]_vars

\* a call that had to move elements has returned: the largest key stood at
\* k and the smallest is asked for, with an element outside the range
C28_Witness ==
    /\ call.fn = "quickselect"
    /\ call.made
    /\ call.arr # call.given
    /\ Len(call.given) = 4
    /\ call.from = 1 /\ call.to = 1 /\ call.upto = 3
    /\ call.given[2][1] = 2
    /\ call.given[4][1] = 0

\* how many of the values of a sequence of entries equal v
CountValue(q, n, v) == Cardinality({i \in 1..n : q[i] = v})

\* the distances of all elements to t, as a brute-force scan computes them
AllDistances(elements, t) ==
    [i \in 1..Len(elements) |-> metric(elements[i], t)]

\* found holds the min(k, n) smallest of the distances all
SmallestOf(found, all, k) ==
    /\ Len(found) = IF k < Len(all) THEN k ELSE Len(all)
    /\ \A i \in 1..Len(found) :
          /\ CountValue(found, Len(found), found[i])
                <= CountValue(all, Len(all), found[i])
          /\ \A j \in 1..Len(all) :
                all[j] < found[i] =>
                    CountValue(found, Len(found), all[j])
                        = CountValue(all, Len(all), all[j])

\* C22: search(t, k) returns a heap of min(k, n) entries, elements of the
\* tree, whose distances to t are the k smallest distances of the n
\* elements, as many times each as a brute-force scan finds them: no ball
\* with a closer element is passed over
C22_SearchFindsNearest ==
    call.fn = "BallTree" /\ call.made =>
        /\ call.out.kind = "heap"
        /\ \A i \in 1..Len(call.out.container) :
              LET p == call.out.container[i].element
              IN  call.elements[p[2] + 1] = p[1]
        /\ SmallestOf([i \in 1..Len(call.out.container) |->
                          call.out.container[i].value],
                      AllDistances(call.elements, call.t), call.k)

\* the snapshots the first n generators of the instance have yielded
RECURSIVE Yielded(_)
Yielded(n) == IF n = 0 THEN 0 ELSE Yielded(n - 1) + gens[n].yields

\* C29: the generators of an instance and its transform() calls step the one
\* counter of the instance: however their pulls and calls interleave, the
\* counter is the number of steps of the transform() calls plus one step for
\* every snapshot a generator yielded, no generator yields more snapshots
\* than its own `iterations`, and step number k of the instance, whoever
\* makes it, exaggerates P while k < 100 and has the momentum of k
C29_SharedCounter ==
    /\ _iter = tsteps + Yielded(Len(gens))
    /\ \A g \in 1..Len(gens) : gens[g].yields <= gens[g].iterations
    /\ Len(sched) = _iter
    /\ \A k \in 1..Len(sched) :
          /\ sched[k][1] = IF k < ExaggerationEnd THEN Exaggeration ELSE 1
          /\ sched[k][2] = IF k < MomentumSwitch THEN MomentumEarly
                           ELSE MomentumLate

\* two generators and a transform() have stepped the instance, and the
\* exaggeration ended between two steps that two pulls made
C29_Witness ==
    /\ Len(gens) = 2
    /\ gens[1].yields >= 1
    /\ gens[2].yields >= 1
    /\ tsteps >= 4 * SharedJump
    /\ ret.kind = "yield"
    /\ _iter = ExaggerationEnd
    /\ tsteps + gens[1].yields + gens[2].yields = _iter
    /\ sched[ExaggerationEnd - 1][1] = Exaggeration
    /\ sched[ExaggerationEnd][1] = 1

\* C30: every read of random_int takes a word at an index within 0..623,
\* none past the end of the 624 words; between two regenerations no word is
\* output twice, and each of the 624 words has been output when the words
\* are regenerated again
C30_WordsReadOnce ==
    call.fn = "Randomizer" =>
        /\ call.r.read # NoRead => call.r.read \in 0..(_N - 1)
        /\ ~call.twice
        /\ call.regens >= 2 => call.prior = 0..(_N - 1)

====
